---- MODULE Spec2Model ----
(***************************************************************************)
(* Script Tree panel: the search-box filter of the file browser and its   *)
(* timer, the double-click preference, the handlers of the context and     *)
(* File menus (script_tree_ui.py), the script editor tabs                  *)
(* (script_tree_dcc_maya.py) and the backup policy (script_tree_utils.py). *)
(*                                                                         *)
(* Text is a sequence of characters.  A character is a one-token string;  *)
(* "U+00E9" stands for a character outside \x00-\x7F, "\t" for an ASCII    *)
(* whitespace character that is not the space character.                   *)
(***************************************************************************)
EXTENDS Integers, Sequences, FiniteSets, TLC

\* ------------------------------------------------------------------ bounds

\* longest text the search box holds in the model
MaxLen == 3

\* the clock runs from second 0 to second MaxTime
MaxTime == 1

\* number of backup_tree calls followed
MaxSnapshots == 2

\* deepest path the platform lets a directory be created at, in names
PathDepthLimit == 7

\* most tabs the script editor holds in the model
MaxTabs == 3

\* most entries of recently_closed_scripts in the model
MaxClosed == 2

\* the time the model lets pass in one step, in milliseconds
TimerStep == 100
MaxSel == 3
MaxToggles == 2

\* ------------------------------------------------------------- characters

NonAsciiChar == "U+00E9"
Tab == "\t"
Space == " "
Comma == ","
Letters == {"a", "b"}
AsciiChars == Letters \cup {Comma, Space, Tab}
Chars == AsciiChars \cup {NonAsciiChar}

IsAscii(c) == c \in AsciiChars

Range(s) == {s[i] : i \in 1..Len(s)}

\* ------------------------------------------------- filter_results, pieces

\* Python: str.replace(old, "") for a one-character old
RECURSIVE replace_char(_, _)
replace_char(s, old) ==
    IF s = <<>> THEN <<>>
    ELSE IF Head(s) = old THEN replace_char(Tail(s), old)
    ELSE <<Head(s)>> \o replace_char(Tail(s), old)

\* Python: str.split(","): the terms between the commas, empty ones included
RECURSIVE split_rec(_, _)
split_rec(s, cur) ==
    IF s = <<>> THEN <<cur>>
    ELSE IF Head(s) = Comma THEN <<cur>> \o split_rec(Tail(s), <<>>)
    ELSE split_rec(Tail(s), Append(cur, Head(s)))

split_comma(s) == split_rec(s, <<>>)

\* the longest prefix of s matched by [^\x00-\x7F]+ is skipped
RECURSIVE skip_non_ascii_run(_)
skip_non_ascii_run(s) ==
    IF s = <<>> \/ IsAscii(Head(s)) THEN s ELSE skip_non_ascii_run(Tail(s))

\* variant: only the first character outside \x00-\x7F is removed
RECURSIVE strip_non_ascii_mut(_)
strip_non_ascii_mut(s) ==
    IF s = <<>> THEN <<>>
    ELSE IF ~IsAscii(Head(s)) THEN Tail(s)
    ELSE <<Head(s)>> \o strip_non_ascii_mut(Tail(s))

\* re.sub(r'[^\x00-\x7F]+', '', text): every maximal run of characters outside
\* \x00-\x7F is replaced by the empty string
RECURSIVE strip_non_ascii(_)
strip_non_ascii(s) ==
    IF s = <<>> THEN <<>>
    ELSE IF ~IsAscii(Head(s)) THEN strip_non_ascii(skip_non_ascii_run(s))
    ELSE <<Head(s)>> \o strip_non_ascii(Tail(s))

\* "*{}*.py".format(t) and "*{}*.mel".format(t)
py_pattern(t) == <<"*">> \o t \o <<"*", ".py">>
mel_pattern(t) == <<"*">> \o t \o <<"*", ".mel">>

\* ScriptTreeWidget.default_filter
default_filter == << <<"*", ".py">>, <<"*", ".mel">> >>

\* variant: the *.mel pattern of a term is not appended
RECURSIVE term_filters_mut(_)
term_filters_mut(terms) ==
    IF terms = <<>> THEN <<>>
    ELSE << py_pattern(replace_char(Head(terms), Space)) >>
         \o term_filters_mut(Tail(terms))

\* the loop of filter_results over the split terms
RECURSIVE term_filters(_)
term_filters(terms) ==
    IF terms = <<>> THEN <<>>
    ELSE LET filter_string == replace_char(Head(terms), Space)
         IN  << py_pattern(filter_string), mel_pattern(filter_string) >>
             \o term_filters(Tail(terms))

\* the name filters filter_results hands to the model for the search-box text
name_filters(text) ==
    LET filter_text == strip_non_ascii(text)
    IN  IF filter_text = <<>> THEN default_filter
        ELSE term_filters(split_comma(filter_text))

\* variant: the emptiness test is made on the text before the stripping
tree_expanded_mut(text) == text /= <<>>

\* TRUE when filter_results ends with expandAll(), FALSE with collapseAll()
tree_expanded(text) == strip_non_ascii(text) /= <<>>

\* ------------------------------------------------------- paths and names

\* A file or directory name is a sequence of tokens, "." being the dot; a path
\* is the sequence of the names from the user's documents folder down.

IsPrefix(p, q) == Len(p) <= Len(q) /\ SubSeq(q, 1, Len(p)) = p

\* os.path.dirname / os.path.basename / os.path.join(dir, name)
dirname(p) == SubSeq(p, 1, Len(p) - 1)
basename(p) == p[Len(p)]
join(dir, name) == Append(dir, name)

\* os.path.splitext on a name: split at the last dot, unless only dots precede it
splitext(name) ==
    LET dots == {i \in 1..Len(name) : name[i] = "."}
    IN  IF dots = {} THEN <<name, <<>> >>
        ELSE LET d == CHOOSE i \in dots : \A j \in dots : j <= i
             IN  IF \E i \in 1..(d - 1) : name[i] /= "."
                 THEN <<SubSeq(name, 1, d - 1), SubSeq(name, d, Len(name))>>
                 ELSE <<name, <<>> >>

\* str(n) for a natural number n: its decimal digits
DigitChar == <<"0", "1", "2", "3", "4", "5", "6", "7", "8", "9">>

RECURSIVE str(_)
str(n) == IF n < 10 THEN <<DigitChar[n + 1]>>
          ELSE str(n \div 10) \o <<DigitChar[(n % 10) + 1]>>

\* ScriptTreeConstants
script_tree_folder == << <<"ScriptTree">>, <<"Maya">> >>
default_script_folder == join(script_tree_folder, <<"Scripts">>)
script_backup_folder == join(script_tree_folder, <<"ScriptTree_ScriptBackup">>)
tree_backup_folder == join(script_tree_folder, <<"ScriptTree_TreeBackup">>)

\* -------------------------------------------------------------- filesystem

\* A filesystem is a record [files, dirs]: files maps the path of every
\* regular file to its content, dirs is the set of the directories.

\* os.path.exists
path_exists(fs, p) == p \in fs.dirs \/ p \in DOMAIN fs.files

\* os.path.isdir
isdir(fs, p) == p \in fs.dirs

Ancestors(p) == {SubSeq(p, 1, k) : k \in 1..Len(p)}

\* os.makedirs(p): p and every missing directory above it
makedirs(fs, p) == [fs EXCEPT !.dirs = fs.dirs \cup Ancestors(p)]

write_file(fs, p, content) ==
    [fs EXCEPT !.files = [q \in DOMAIN fs.files \cup {p} |->
                             IF q = p THEN content ELSE fs.files[q]]]

\* ----------------------------------------------------------- backup_script

get_backup_folder_for_script(script_path) ==
    LET file_name == splitext(basename(script_path))[1]
    IN  join(script_backup_folder, file_name)

\* variant: the copy is put into the backup root, not into the folder of the stem
backup_file_path_mut(script_path, unique_time) ==
    LET parts == splitext(basename(script_path))
    IN  join(script_backup_folder, parts[1] \o <<"_BACKUP_">> \o unique_time \o parts[2])

\* variant: the name of the script is not part of the path of the copy
backup_file_path_no_stem(script_path, unique_time) ==
    join(script_backup_folder, <<"_BACKUP_">> \o unique_time)

\* backup_script: the path the copy is written to
backup_file_path(script_path, unique_time) ==
    LET parts == splitext(basename(script_path))
        backup_file_name == parts[1] \o <<"_BACKUP_">> \o unique_time \o parts[2]
    IN  join(get_backup_folder_for_script(script_path), backup_file_name)

\* what the environment lets the backup do: everything, or an I/O failure in
\* os.makedirs, or one in shutil.copy2 (before the destination is written)
BackupOutcomes == {"ok", "makedirs_fail", "copy_fail"}

ErrorRecord == [logger |-> "root", level |-> "error"]

\* the body of the try block of backup_script and its except clause
backup_script_try(fs, script_path, time, outcome) ==
    LET dst == backup_file_path(script_path, str(time))
        need_dir == ~path_exists(fs, dirname(dst))
    IN  IF need_dir /\ outcome = "makedirs_fail"
        THEN [fs |-> fs, log |-> <<ErrorRecord>>, raised |-> FALSE]
        ELSE LET fs1 == IF need_dir THEN makedirs(fs, dirname(dst)) ELSE fs
                 can_copy == /\ script_path \in DOMAIN fs1.files
                             /\ dirname(dst) \in fs1.dirs
                             /\ dst \notin fs1.dirs
             IN  IF ~can_copy \/ outcome = "copy_fail"
                 THEN [fs |-> fs1, log |-> <<ErrorRecord>>, raised |-> FALSE]
                 ELSE [fs |-> write_file(fs1, dst, fs1.files[script_path]),
                       log |-> <<>>, raised |-> FALSE]

\* variant: the existence check of the source is missing
backup_script_unguarded(fs, script_path, time, outcome) ==
    backup_script_try(fs, script_path, time, outcome)

\* variant: no except clause, a failure leaves the function as an exception
backup_script_uncaught(fs, script_path, time, outcome) ==
    LET r == backup_script_try(fs, script_path, time, outcome)
    IN  IF ~path_exists(fs, script_path) THEN [fs |-> fs, log |-> <<>>, raised |-> FALSE]
        ELSE IF r.log /= <<>> THEN [fs |-> r.fs, log |-> <<>>, raised |-> TRUE]
        ELSE r

\* backup_script(script_path) at clock value time: the filesystem after it, the
\* records it logs, and whether an exception leaves it
backup_script(fs, script_path, time, outcome) ==
    IF ~path_exists(fs, script_path)
    THEN [fs |-> fs, log |-> <<>>, raised |-> FALSE]
    ELSE backup_script_try(fs, script_path, time, outcome)

\* ------------------------------------------ backup_tree, copy_directory

Rel(d, p) == SubSeq(p, Len(d) + 1, Len(p))

\* os.listdir(d), as paths
Children(fs, d) ==
    {p \in fs.dirs \cup DOMAIN fs.files : Len(p) = Len(d) + 1 /\ IsPrefix(d, p)}

FilesUnder(fs, d) == {p \in DOMAIN fs.files : IsPrefix(d, p)}
DirsUnder(fs, d) == {p \in fs.dirs : IsPrefix(d, p) /\ p /= d}

\* the relative paths of the regular files below directory d
RelFiles(fs, d) == {Rel(d, p) : p \in FilesUnder(fs, d)}

\* shutil.copytree of a directory into a directory below itself: every level
\* lists a directory that already holds the level before, so it nests the
\* relative path rel of the destination again and again until the path gets
\* too deep for the platform (the copies of files inside the nest are left out)
NestedDirs(dst, rel) ==
    {dst \o [i \in 1..k |-> rel[((i - 1) % Len(rel)) + 1]] :
        k \in 1..(PathDepthLimit - Len(dst))}

\* variant: the clock value is not part of the name
backup_directory_path_mut(time) ==
    join(tree_backup_folder, <<"ScriptTree_BACKUP_">>)

\* the destination backup_tree computes for the clock value time
backup_directory_path(time) ==
    join(tree_backup_folder, <<"ScriptTree_BACKUP_">> \o str(time))

\* copy_directory(src, dst).  done is the set of relative file paths the
\* environment lets shutil copy before an I/O failure (all of them: no failure).
\* Result: the filesystem, whether an exception leaves the function, and the
\* paths written.
copy_directory(fs, src, dst, done) ==
    LET fs1 == IF ~path_exists(fs, dst) THEN makedirs(fs, dst) ELSE fs
    IN  IF ~isdir(fs1, src)
        THEN [fs |-> fs1, raised |-> TRUE, written |-> fs1.dirs \ fs.dirs]
        ELSE
        LET items == Children(fs1, src)
            \* copytree(s, d) raises when d exists
            clash == {s \in items : isdir(fs1, s) /\ path_exists(fs1, dst \o Rel(src, s))}
            \* copytree(s, d) with d below s
            nest == {s \in items : isdir(fs1, s) /\ IsPrefix(s, dst)} \ clash
            blocked == clash \cup nest
            src_files == {f \in FilesUnder(fs1, src) : \A s \in blocked : ~IsPrefix(s, f)}
            src_dirs == {d \in DirsUnder(fs1, src) : \A s \in blocked : ~IsPrefix(s, d)}
            io_ok == \A f \in src_files : Rel(src, f) \in done
            copied == {f \in src_files : Rel(src, f) \in done}
            to(p) == dst \o Rel(src, p)
            new_files == {to(f) : f \in copied}
            new_dirs ==
                (IF io_ok THEN {to(d) : d \in src_dirs}
                 ELSE UNION {Ancestors(dirname(to(f))) : f \in copied})
                \cup (IF nest = {} THEN {} ELSE NestedDirs(dst, Rel(src, dst)))
            content(q) == fs1.files[src \o Rel(dst, q)]
            fs2 == [files |-> [q \in DOMAIN fs1.files \cup new_files |->
                                  IF q \in new_files THEN content(q) ELSE fs1.files[q]],
                    dirs |-> fs1.dirs \cup new_dirs]
        IN  [fs |-> fs2,
             raised |-> blocked /= {} \/ ~io_ok,
             written |-> new_files \cup (fs2.dirs \ fs.dirs)]

InfoRecord == [logger |-> "root", level |-> "info"]

\* variant: the failure of the copy is caught and logged
backup_tree_swallow(fs, script_folder, time, done) ==
    LET dst == backup_directory_path(time)
        r == copy_directory(fs, script_folder, dst, done)
    IN  [fs |-> r.fs, dst |-> dst, written |-> r.written, raised |-> FALSE,
         log |-> IF r.raised THEN <<ErrorRecord>> ELSE <<InfoRecord>>]

\* backup_tree(script_folder) at clock value time
backup_tree(fs, script_folder, time, done) ==
    LET dst == backup_directory_path(time)
        r == copy_directory(fs, script_folder, dst, done)
    IN  [fs |-> r.fs, dst |-> dst, written |-> r.written, raised |-> r.raised,
         log |-> IF r.raised THEN <<>> ELSE <<InfoRecord>>]

\* ------------------------------------------------------------------ state

VARIABLES
    search_text,      \* ui.search_bar.text()
    timer_pending,    \* filter_timer is active (single shot, started, not fired)
    nameFilters,      \* ui.model.nameFilters()
    expanded,         \* tree_view: expandAll() was the last of expandAll/collapseAll
    files,            \* the filesystem: path of every regular file -> content
    dirs,             \* the filesystem: the directories
    now,              \* int(time.time())
    tabs,             \* the script editor's tabs: [path, text]
    selected,         \* index of the selected tab
    folder_path,      \* ui.folder_path.text(): the script folder
    root_path,        \* ui.model.rootPath(), the root index of the tree view
    settings,         \* ScriptEditorSettings: key -> value
    pc,               \* where the running handler stands; "idle" between handlers
    save_path,        \* action_save_tab: script_path
    handler_log,      \* the log records of the latest handler
    raised,           \* the latest handler ended with an exception
    snapshots,        \* history: the backup_tree calls made, in order
    timer_left,       \* filter_timer: milliseconds until it fires
    filter_runs,      \* history: runs of filter_results since the last text change
    backups_made,     \* history: <<destination, script, time>> of the copies of backup_script
    current_path,     \* ui.get_selected_path(): the current item of the tree view
    doubleClicked,    \* the slots connected to tree_view.doubleClicked, in order
    recently_closed_scripts,  \* ScriptTreeWindow.recently_closed_scripts
    host_calls,       \* what the latest handler executed in the host
    last_event,       \* the latest signal handled: [signal, choice, slots]
    selected_text,    \* cmdScrollFieldExecuter selectedText of the selected tab
    original_text,    \* history: the selection when it was made
    toggles           \* history: toggle_comment_selected_lines calls since then

filter_vars == <<search_text, timer_pending, nameFilters, expanded, timer_left,
                 filter_runs>>
comment_vars == <<selected_text, original_text, toggles>>
panel_vars == <<current_path, doubleClicked, recently_closed_scripts, host_calls,
                last_event>>
vars == <<search_text, timer_pending, nameFilters, expanded, files, dirs, now,
          tabs, selected, folder_path, root_path, settings, pc, save_path,
          handler_log, raised, snapshots, timer_left, filter_runs, backups_made,
          current_path, doubleClicked, recently_closed_scripts, host_calls,
          last_event, selected_text, original_text, toggles>>

FS == [files |-> files, dirs |-> dirs]

NoPath == <<>>
\* what the settings hold under a key never set: no value; a stored value v
\* is held as {v}
Unset == {}

a_py == <<"a", ".", "py">>
b_mel == <<"b", ".", "mel">>
sub_folder == join(default_script_folder, <<"sub">>)

\* the paths the model's user picks in the save dialog
SavePaths == {join(default_script_folder, a_py), join(sub_folder, a_py),
              join(default_script_folder, b_mel)}

\* a folder that does not exist when the window is constructed
new_folder == join(script_tree_folder, <<"New">>)

\* the folders the model's user picks as script folder
Folders == {default_script_folder, script_tree_folder, new_folder}

\* ------------------------------------------- toggle_comment_selected_lines

Hash == "#"
Newline == "\n"

\* Python: str.split("\n"): the lines, empty ones included
RECURSIVE split_newline_rec(_, _)
split_newline_rec(s, cur) ==
    IF s = <<>> THEN <<cur>>
    ELSE IF Head(s) = Newline THEN <<cur>> \o split_newline_rec(Tail(s), <<>>)
    ELSE split_newline_rec(Tail(s), Append(cur, Head(s)))

split_newline(s) == split_newline_rec(s, <<>>)

\* Python: "\n".join(lines)
RECURSIVE join_newline(_)
join_newline(lines) ==
    IF Len(lines) = 0 THEN <<>>
    ELSE IF Len(lines) = 1 THEN lines[1]
    ELSE lines[1] \o <<Newline>> \o join_newline(Tail(lines))

\* Python: line.replace("# ", ""): every occurrence, left to right, no overlap
RECURSIVE replace_comment_mark(_)
replace_comment_mark(line) ==
    IF Len(line) < 2 THEN line
    ELSE IF line[1] = Hash /\ line[2] = Space
         THEN replace_comment_mark(SubSeq(line, 3, Len(line)))
         ELSE <<line[1]>> \o replace_comment_mark(Tail(line))

\* "#" not in selected_text.split("\n")[0]
comment_lines(text) == Hash \notin Range(split_newline(text)[1])

\* toggle_comment_selected_lines: new_text, the text inserted over the selection
new_text(text) ==
    LET lines == split_newline(text)
        new_line(line) == IF comment_lines(text) THEN <<Hash, Space>> \o line
                          ELSE replace_comment_mark(line)
    IN  join_newline([i \in 1..Len(lines) |-> new_line(lines[i])])

\* ---------------------------------------------------------------- settings

\* ScriptEditorSettings: the keys
k_folder_path == "folder_path"
k_double_click_action == "double_click_action"

\* ScriptTreeConstants: the two choices of the double-click preference
run_script_on_click == "Run Script on Double-Click"
edit_script_on_click == "Edit Script on Double-Click"

\* variant: the stored value is ignored
value_mut(s, key, defaultValue) == defaultValue

\* QSettings.value(key, defaultValue)
value(s, key, defaultValue) ==
    IF s[key] = Unset THEN defaultValue ELSE CHOOSE v \in s[key] : TRUE

\* QSettings.setValue(key, v)
setValue(s, key, v) == [s EXCEPT ![key] = {v}]

\* the settings file of a first start: nothing stored
NoSettings == [folder_path |-> Unset, double_click_action |-> Unset]

\* variant: the slot is connected without disconnecting the ones before
action_setup_double_click_connections_mut(slots, s) ==
    Append(slots,
           IF value(s, k_double_click_action, edit_script_on_click) = edit_script_on_click
           THEN "action_open_script" ELSE "action_run_script")

\* variant: the value read when nothing is stored is the default of the menu
action_setup_double_click_connections_run(slots, s) ==
    IF value(s, k_double_click_action, run_script_on_click) = edit_script_on_click
    THEN <<"action_open_script">> ELSE <<"action_run_script">>

\* action_setup_double_click_connections: the slots connected to
\* tree_view.doubleClicked when it returns, slots being the ones before
action_setup_double_click_connections(slots, s) ==
    LET disconnected == <<>>
        settings_value == value(s, k_double_click_action, edit_script_on_click)
    IN  IF settings_value = edit_script_on_click
        THEN Append(disconnected, "action_open_script")
        ELSE Append(disconnected, "action_run_script")

\* the RADIO_SETTING entry of context_menu_actions: its "default"
radio_setting_default == run_script_on_click

\* build_menu_from_action_list, RADIO_SETTING: the choice whose radio item is
\* checked in the context menu built from the settings s
item_to_check(s) ==
    LET stored == value(s, k_double_click_action, "")
    IN  IF stored = "" THEN radio_setting_default ELSE stored

\* ------------------------------------------------- tree view, script editor

\* str.lower() on a name: "MEL" is the one token of the model with capitals
lower(name) == [i \in 1..Len(name) |-> IF name[i] = "MEL" THEN "mel" ELSE name[i]]

dot_py == <<".", "py">>
dot_mel == <<".", "mel">>

\* str.endswith(suffix) on a path, suffix an extension
endswith(path, suffix) ==
    /\ path /= NoPath
    /\ LET name == basename(path)
       IN  /\ Len(name) >= Len(suffix)
           /\ SubSeq(name, Len(name) - Len(suffix) + 1, Len(name)) = suffix

\* the items the tree view shows below the folder root while the name filters
\* are default_filter: every directory, and the files named *.py or *.mel, the
\* case of the letters ignored (nameFilterDisables is off: the others are hidden)
tree_items(fs, root) ==
    {p \in fs.dirs \cup DOMAIN fs.files :
        /\ IsPrefix(root, p) /\ p /= root
        /\ p \in DOMAIN fs.files => lower(splitext(basename(p))[2]) \in {dot_py, dot_mel}}

\* The script editor is a record [tabs, selected]; a tab is [path, text], path
\* being the file of the tab and its label, NoPath for a tab never saved.

tabs_named(ed, path) == {i \in 1..Len(ed.tabs) : ed.tabs[i].path = path}

\* reload_selected_tab
reload_selected_tab(ed, fs) ==
    LET script_path == ed.tabs[ed.selected].path
    IN  IF script_path \in DOMAIN fs.files
        THEN [ed EXCEPT !.tabs[ed.selected].text = fs.files[script_path]]
        ELSE ed

\* open_script(script_path)
open_script(ed, fs, script_path) ==
    IF tabs_named(ed, script_path) /= {}
    THEN LET i == CHOOSE i \in tabs_named(ed, script_path) :
                      \A j \in tabs_named(ed, script_path) : i <= j
         IN  reload_selected_tab([ed EXCEPT !.selected = i], fs)
    ELSE LET script_ext == lower(splitext(basename(script_path))[2])
             built == IF script_ext \in {dot_py, dot_mel}
                      THEN Append(ed.tabs, [path |-> NoPath, text |-> ""])
                      ELSE ed.tabs
             tabs_len == Len(built)
             loaded == IF script_path \in DOMAIN fs.files
                       THEN fs.files[script_path] ELSE built[tabs_len].text
         IN  [tabs |-> [built EXCEPT ![tabs_len] = [path |-> script_path, text |-> loaded]],
              selected |-> tabs_len]

\* delete_selected_tab, the host selecting the tab new_selected afterwards
delete_selected_tab(ed, new_selected) ==
    [tabs |-> [i \in 1..(Len(ed.tabs) - 1) |->
                  IF i < ed.selected THEN ed.tabs[i] ELSE ed.tabs[i + 1]],
     selected |-> new_selected]

ScriptTreeInfo == [logger |-> "Script-Tree", level |-> "info"]
ScriptTreeWarning == [logger |-> "Script-Tree", level |-> "warning"]

\* A handler's result is [tabs, selected, log, host]: the editor, the records
\* logged and the calls made into the host, [fn, arg].

\* action_open_script once it has its script_path
action_open_script(st, fs, script_path) ==
    IF isdir(fs, script_path) THEN st
    ELSE LET ed == open_script([tabs |-> st.tabs, selected |-> st.selected], fs, script_path)
         IN  [tabs |-> ed.tabs, selected |-> ed.selected,
              log |-> Append(st.log, ScriptTreeInfo),
              host |-> Append(st.host, [fn |-> "open_script", arg |-> script_path])]

\* action_run_script, file_path being ui.get_selected_path(); the command for
\* the repeat list is written as the path it runs, NoPath for the empty command
action_run_script(st, fs, file_path) ==
    IF isdir(fs, file_path) THEN st
    ELSE LET is_py == endswith(file_path, dot_py)
             is_mel == ~is_py /\ endswith(file_path, dot_mel)
             exec_command == IF is_py THEN file_path ELSE NoPath
         IN  [tabs |-> st.tabs, selected |-> st.selected,
              log |-> st.log \o (IF is_mel THEN <<ScriptTreeWarning>> ELSE <<>>)
                         \o <<ScriptTreeInfo>>,
              host |-> st.host
                         \o (IF is_py THEN <<[fn |-> "runpy.run_path", arg |-> file_path]>>
                             ELSE <<>>)
                         \o <<[fn |-> "add_to_repeat_commands", arg |-> exec_command]>>]

\* tree_view.doubleClicked is emitted: the connected slots run in order
RECURSIVE emit(_, _, _, _)
emit(slots, st, fs, path) ==
    IF slots = <<>> THEN st
    ELSE emit(Tail(slots),
              IF Head(slots) = "action_open_script"
              THEN action_open_script(st, fs, path)
              ELSE action_run_script(st, fs, path),
              fs, path)

NoEvent == [signal |-> "", choice |-> "", slots |-> <<>>]

\* ScriptTreeWindow.__init__: the closed-script list is empty, setup_connections
\* has connected the double click from the stored preference, nothing is
\* current in the tree
InitPanel ==
    /\ current_path = NoPath
    /\ doubleClicked = action_setup_double_click_connections(<<>>, settings)
    /\ recently_closed_scripts = <<>>
    /\ host_calls = <<>>
    /\ last_event = NoEvent

InitFilter ==
    /\ search_text = <<>>
    /\ timer_pending = FALSE
    /\ nameFilters = default_filter
    /\ expanded = FALSE
    /\ timer_left = 0
    /\ filter_runs = 0

\* the window was constructed with nothing stored in the settings, over a
\* default script folder holding the files scripts and the folder sub; the
\* script editor shows one tab that has no file yet, its text not the content
\* of the scripts
InitWith(scripts) ==
    /\ dirs = Ancestors(sub_folder)
    /\ files = [p \in scripts |-> "v0"]
    /\ now = 0
    /\ tabs = << [path |-> NoPath, text |-> "v1"] >>
    /\ selected = 1
    /\ folder_path = value(NoSettings, k_folder_path, default_script_folder)
    /\ root_path = folder_path
    /\ settings = setValue(NoSettings, k_folder_path, folder_path)
    /\ pc = "idle"
    /\ save_path = NoPath
    /\ handler_log = <<>>
    /\ raised = FALSE
    /\ snapshots = <<>>
    /\ backups_made = {}
    /\ selected_text = <<>>
    /\ original_text = <<>>
    /\ toggles = 0
    /\ InitPanel

\* the default script folder holds a.py and sub/a.py
InitRest == InitWith({join(default_script_folder, a_py), join(sub_folder, a_py)})

Init == InitFilter /\ InitRest

\* ---------------------------------------------------------------- actions

\* ScriptTreeConstants.user_input_filter_delay, in milliseconds
user_input_filter_delay == 200

\* variant: the timer is not single-shot, it goes on firing
filter_timer_repeating == FALSE

\* filter_timer.setSingleShot(True)
filter_timer_single_shot == TRUE

\* the edits of the search box: a character typed at the end, the last
\* character deleted, or the clear button
Edits(text) ==
    {Append(text, c) : c \in IF Len(text) < MaxLen THEN Chars ELSE {}}
    \cup (IF text = <<>> THEN {} ELSE {SubSeq(text, 1, Len(text) - 1), <<>>})

\* search_bar.textChanged -> _user_input_filter: (re)start the single-shot timer
user_input_filter ==
    /\ \E new \in Edits(search_text) : search_text' = new
    /\ timer_pending' = TRUE
    /\ timer_left' = user_input_filter_delay
    /\ filter_runs' = 0
    /\ UNCHANGED <<comment_vars, nameFilters, expanded, files, dirs, now, tabs, selected,
                   folder_path, root_path, settings, pc, save_path, handler_log, raised,
                   snapshots, backups_made, panel_vars>>

\* the event loop runs for TimerStep milliseconds while the timer is active
time_passes ==
    /\ timer_pending
    /\ timer_left > 0
    /\ timer_left' = IF timer_left > TimerStep THEN timer_left - TimerStep ELSE 0
    /\ UNCHANGED <<comment_vars, search_text, timer_pending, nameFilters, expanded, filter_runs,
                   files, dirs, now, tabs, selected, folder_path, root_path, settings, pc,
                   save_path, handler_log, raised, snapshots, backups_made,
                   panel_vars>>

\* filter_timer.timeout -> filter_results; the timer is single-shot
filter_results ==
    /\ timer_pending
    /\ timer_left = 0
    /\ timer_pending' = ~filter_timer_single_shot
    /\ timer_left' = IF timer_pending' THEN user_input_filter_delay ELSE 0
    /\ filter_runs' = IF filter_runs < 2 THEN filter_runs + 1 ELSE filter_runs
    /\ nameFilters' = name_filters(search_text)
    /\ expanded' = tree_expanded(search_text)
    /\ UNCHANGED <<comment_vars, search_text, files, dirs, now, tabs, selected, folder_path, root_path,
                   settings, pc, save_path, handler_log, raised, snapshots,
                   backups_made, panel_vars>>

\* the clock reaches the next second
Tick ==
    /\ pc = "idle"
    /\ now < MaxTime
    /\ now' = now + 1
    /\ UNCHANGED <<comment_vars, filter_vars, files, dirs, tabs, selected, folder_path, root_path,
                   settings, pc, save_path, handler_log, raised, snapshots,
                   backups_made, panel_vars>>

\* variant: save_selected_tab is called without backup_script before it
action_save_tab_no_backup ==
    /\ pc = "idle"
    /\ \E prompt_path \in BOOLEAN, choice \in SavePaths \cup {NoPath} :
          LET script_path == tabs[selected].path
              path == IF prompt_path \/ script_path = NoPath THEN choice ELSE script_path
          IN  /\ handler_log' = <<>>
              /\ raised' = FALSE
              /\ IF path = NoPath
                 THEN UNCHANGED <<pc, save_path>>
                 ELSE pc' = "save_selected_tab" /\ save_path' = path
    /\ UNCHANGED <<comment_vars, filter_vars, files, dirs, now, tabs, selected, folder_path, root_path,
                   settings, snapshots, backups_made, panel_vars>>

\* action_save_tab(prompt_path) up to the call of backup_script; choice is the
\* answer of the save dialog, NoPath when the user cancels it
action_save_tab ==
    /\ pc = "idle"
    /\ \E prompt_path \in BOOLEAN, choice \in SavePaths \cup {NoPath} :
          LET script_path == tabs[selected].path
              asked == prompt_path \/ script_path = NoPath
              path == IF asked THEN choice ELSE script_path
          IN  /\ handler_log' = <<>>
              /\ raised' = FALSE
              /\ IF path = NoPath
                 THEN UNCHANGED <<pc, save_path>>
                 ELSE pc' = "backup_script" /\ save_path' = path
    /\ UNCHANGED <<comment_vars, filter_vars, files, dirs, now, tabs, selected, folder_path, root_path,
                   settings, snapshots, backups_made, panel_vars>>

\* stu.backup_script(script_path) inside action_save_tab
save_backup_script ==
    /\ pc = "backup_script"
    /\ \E outcome \in BackupOutcomes :
          LET r == backup_script(FS, save_path, now, outcome)
          IN  /\ files' = r.fs.files
              /\ dirs' = r.fs.dirs
              /\ handler_log' = handler_log \o r.log
              /\ raised' = r.raised
              /\ pc' = IF r.raised THEN "idle" ELSE "save_selected_tab"
              /\ backups_made' =
                    IF path_exists(FS, save_path) /\ r.log = <<>> /\ ~r.raised
                    THEN backups_made
                         \cup {<<backup_file_path(save_path, str(now)), save_path, now>>}
                    ELSE backups_made
    /\ UNCHANGED <<comment_vars, filter_vars, now, tabs, selected, folder_path, root_path, settings,
                   save_path, snapshots, panel_vars>>

\* dcc_actions.save_selected_tab(script_path) inside action_save_tab
save_selected_tab ==
    /\ pc = "save_selected_tab"
    /\ files' = write_file(FS, save_path, tabs[selected].text).files
    /\ tabs' = [tabs EXCEPT ![selected].path = save_path]
    /\ handler_log' = Append(handler_log, [logger |-> "Script-Tree", level |-> "info"])
    /\ pc' = "idle"
    /\ save_path' = NoPath
    /\ UNCHANGED <<comment_vars, filter_vars, dirs, now, selected, folder_path, root_path, settings,
                   raised, snapshots, backups_made, panel_vars>>

\* variant: a folder that does not exist is not created
set_folder_dirs_mut(fs, folder) == fs.dirs

\* action_set_folder: the directories after "if not os.path.exists(folder_path):
\* os.makedirs(folder_path)"
set_folder_dirs(fs, folder) ==
    IF ~path_exists(fs, folder) THEN makedirs(fs, folder).dirs ELSE fs.dirs

\* ScriptTreeWidget.set_script_folder: the root of the model and of the tree
\* view, and the text of the folder line
set_script_folder(folder) == [root_path |-> folder, folder_path |-> folder]

\* action_set_folder: choice is the answer of the folder dialog
action_set_folder ==
    /\ pc = "idle"
    /\ \E choice \in Folders \cup {NoPath} :
          /\ handler_log' = <<>>
          /\ raised' = FALSE
          /\ last_event' = [signal |-> "set_folder_btn.clicked", choice |-> "",
                            slots |-> <<"action_set_folder">>]
          /\ IF choice = NoPath
             THEN UNCHANGED <<dirs, folder_path, root_path, settings>>
             ELSE /\ dirs' = set_folder_dirs(FS, choice)
                  /\ folder_path' = set_script_folder(choice).folder_path
                  /\ root_path' = set_script_folder(choice).root_path
                  /\ settings' = setValue(settings, k_folder_path, choice)
    /\ UNCHANGED <<comment_vars, filter_vars, files, now, tabs, selected, pc, save_path, snapshots,
                   backups_made, current_path, doubleClicked,
                   recently_closed_scripts, host_calls>>

\* action_backup_tree: the question box answered Ok or Cancel
action_backup_tree ==
    /\ pc = "idle"
    /\ Len(snapshots) < MaxSnapshots
    /\ \/ /\ handler_log' = <<>>
          /\ raised' = FALSE
          /\ UNCHANGED <<files, dirs, snapshots>>
       \/ \E done \in SUBSET RelFiles(FS, folder_path) :
             LET r == backup_tree(FS, folder_path, now, done)
             IN  /\ files' = r.fs.files
                 /\ dirs' = r.fs.dirs
                 /\ raised' = r.raised
                 /\ handler_log' = r.log
                 /\ snapshots' = Append(snapshots,
                       [src |-> folder_path, dst |-> r.dst, time |-> now,
                        written |-> r.written, raised |-> r.raised,
                        io_ok |-> done = RelFiles(FS, folder_path)])
    /\ UNCHANGED <<comment_vars, filter_vars, now, tabs, selected, folder_path, root_path, settings, pc,
                   save_path, backups_made, panel_vars>>

Editor == [tabs |-> tabs, selected |-> selected]
HandlerStart == [tabs |-> tabs, selected |-> selected, log |-> <<>>, host |-> <<>>]

\* what a handler that ran to its end leaves behind
HandlerDone(r, event) ==
    /\ tabs' = r.tabs
    /\ selected' = r.selected
    /\ handler_log' = r.log
    /\ host_calls' = r.host
    /\ raised' = FALSE
    /\ last_event' = event

\* the user makes an item of the tree the current one; no slot of the panel
\* is connected to that
select_path ==
    /\ pc = "idle"
    /\ \E p \in tree_items(FS, root_path) : current_path' = p
    /\ last_event' = [signal |-> "currentChanged", choice |-> "", slots |-> <<>>]
    /\ UNCHANGED <<comment_vars, filter_vars, files, dirs, now, tabs, selected, folder_path, root_path,
                   settings, pc, save_path, handler_log, raised, snapshots,
                   backups_made, doubleClicked, recently_closed_scripts,
                   host_calls>>

\* a choice of the RADIO_SETTING entry of the context menu is triggered:
\* set_settings_value(settings, k_double_click_action, choice_key,
\* action_setup_double_click_connections)
set_settings_value ==
    /\ pc = "idle"
    /\ \E choice_key \in {run_script_on_click, edit_script_on_click} :
          LET stored == setValue(settings, k_double_click_action, choice_key)
          IN  /\ settings' = stored
              /\ doubleClicked' = action_setup_double_click_connections(doubleClicked, stored)
              /\ last_event' = [signal |-> "triggered", choice |-> choice_key,
                                slots |-> <<"set_settings_value">>]
    /\ handler_log' = <<>>
    /\ host_calls' = <<>>
    /\ raised' = FALSE
    /\ UNCHANGED <<comment_vars, filter_vars, files, dirs, now, tabs, selected, folder_path, root_path, pc,
                   save_path, snapshots, backups_made, current_path,
                   recently_closed_scripts>>

\* an item of the tree is double-clicked: it becomes the current one and
\* tree_view.doubleClicked is emitted
double_click ==
    /\ pc = "idle"
    /\ \E p \in tree_items(FS, root_path) :
          LET r == emit(doubleClicked, HandlerStart, FS, p)
          IN  /\ Len(r.tabs) <= MaxTabs
              /\ current_path' = p
              /\ HandlerDone(r, [signal |-> "doubleClicked", choice |-> "",
                                 slots |-> doubleClicked])
    /\ UNCHANGED <<comment_vars, filter_vars, files, dirs, now, folder_path, root_path, settings, pc,
                   save_path, snapshots, backups_made, doubleClicked,
                   recently_closed_scripts>>

\* "Run Script" of the context menu, on the current item
context_menu_run_script ==
    /\ pc = "idle"
    /\ current_path /= NoPath
    /\ HandlerDone(action_run_script(HandlerStart, FS, current_path),
                   [signal |-> "Run Script", choice |-> "",
                    slots |-> <<"action_run_script">>])
    /\ UNCHANGED <<comment_vars, filter_vars, files, dirs, now, folder_path, root_path, settings, pc,
                   save_path, snapshots, backups_made, current_path, doubleClicked,
                   recently_closed_scripts>>

\* "Edit Script" of the context menu, on the current item
context_menu_edit_script ==
    /\ pc = "idle"
    /\ current_path /= NoPath
    /\ LET r == action_open_script(HandlerStart, FS, current_path)
       IN  /\ Len(r.tabs) <= MaxTabs
           /\ HandlerDone(r, [signal |-> "Edit Script", choice |-> "",
                              slots |-> <<"action_open_script">>])
    /\ UNCHANGED <<comment_vars, filter_vars, files, dirs, now, folder_path, root_path, settings, pc,
                   save_path, snapshots, backups_made, current_path, doubleClicked,
                   recently_closed_scripts>>

\* the files the user can pick in the open dialog: the dialog lists *.py and
\* *.mel and takes the name of any other file typed into it
OpenPaths == {p \in DOMAIN files : IsPrefix(default_script_folder, p)}

\* "Open Script" of the File menu: action_open_script(prompt_path=True);
\* choice is the answer of the open dialog, NoPath when the user cancels it
file_menu_open_script ==
    /\ pc = "idle"
    /\ \E choice \in OpenPaths \cup {NoPath} :
          LET r == IF choice = NoPath THEN HandlerStart
                   ELSE action_open_script(HandlerStart, FS, choice)
          IN  /\ Len(r.tabs) <= MaxTabs
              /\ HandlerDone(r, [signal |-> "Open Script", choice |-> "",
                                 slots |-> <<"action_open_script">>])
    /\ UNCHANGED <<comment_vars, filter_vars, files, dirs, now, folder_path, root_path, settings, pc,
                   save_path, snapshots, backups_made, current_path, doubleClicked,
                   recently_closed_scripts>>

\* "Close Script" of the File menu: action_close_tab; the script editor keeps
\* one tab at least and selects one of the tabs left
action_close_tab ==
    /\ pc = "idle"
    /\ Len(tabs) > 1
    /\ Len(recently_closed_scripts) < MaxClosed
    /\ recently_closed_scripts' = Append(recently_closed_scripts, tabs[selected].path)
    /\ \E new_selected \in 1..(Len(tabs) - 1) :
          LET ed == delete_selected_tab(Editor, new_selected)
          IN  HandlerDone([tabs |-> ed.tabs, selected |-> ed.selected, log |-> <<>>,
                           host |-> <<[fn |-> "delete_selected_tab",
                                       arg |-> tabs[selected].path]>>],
                          [signal |-> "Close Script", choice |-> "",
                           slots |-> <<"action_close_tab">>])
    /\ UNCHANGED <<comment_vars, filter_vars, files, dirs, now, folder_path, root_path, settings, pc,
                   save_path, snapshots, backups_made, current_path, doubleClicked>>

\* variant: the closed scripts are reopened oldest first
reopen_recently_closed_mut(closed, ed, fs) ==
    IF Len(closed) = 0 THEN [closed |-> closed, ed |-> ed, opened |-> FALSE]
    ELSE LET recent_script_path == closed[1]
         IN  [closed |-> Tail(closed),
              ed |-> IF recent_script_path /= NoPath
                     THEN open_script(ed, fs, recent_script_path) ELSE ed,
              opened |-> recent_script_path /= NoPath]

\* action_reopen_recently_closed: the list and the editor afterwards, and
\* whether open_script was called
reopen_recently_closed(closed, ed, fs) ==
    IF Len(closed) = 0 THEN [closed |-> closed, ed |-> ed, opened |-> FALSE]
    ELSE LET recent_script_path == closed[Len(closed)]
         IN  [closed |-> SubSeq(closed, 1, Len(closed) - 1),
              ed |-> IF recent_script_path /= NoPath
                     THEN open_script(ed, fs, recent_script_path) ELSE ed,
              opened |-> recent_script_path /= NoPath]

\* "Reopen closed Script" of the File menu
action_reopen_recently_closed ==
    /\ pc = "idle"
    /\ LET r == reopen_recently_closed(recently_closed_scripts, Editor, FS)
       IN  /\ Len(r.ed.tabs) <= MaxTabs
           /\ recently_closed_scripts' = r.closed
           /\ HandlerDone([tabs |-> r.ed.tabs, selected |-> r.ed.selected, log |-> <<>>,
                           host |-> IF r.opened
                                    THEN <<[fn |-> "open_script",
                                            arg |-> recently_closed_scripts[
                                                        Len(recently_closed_scripts)]]>>
                                    ELSE <<>>],
                          [signal |-> "Reopen closed Script", choice |-> "",
                           slots |-> <<"action_reopen_recently_closed">>])
    /\ UNCHANGED <<comment_vars, filter_vars, files, dirs, now, folder_path, root_path, settings, pc,
                   save_path, snapshots, backups_made, current_path, doubleClicked>>

NextFilter == user_input_filter \/ time_passes \/ filter_results
NextClick ==
    \/ select_path
    \/ set_settings_value
    \/ double_click
    \/ context_menu_run_script
    \/ context_menu_edit_script
    \/ action_set_folder
NextEditor ==
    \/ file_menu_open_script
    \/ action_close_tab
    \/ action_reopen_recently_closed
NextSave == Tick \/ action_save_tab \/ save_backup_script \/ save_selected_tab
NextTree == Tick \/ action_set_folder \/ action_backup_tree

Next == NextFilter
Spec == Init /\ [][Next]_vars
SaveSpec == Init /\ [][NextSave]_vars
TreeSpec == Init /\ [][NextTree]_vars

\* _user_input_filter for a user who types letters only
user_input_letters ==
    /\ user_input_filter
    /\ \A i \in 1..Len(search_text') : search_text'[i] \in Letters

NextDebounce == user_input_letters \/ time_passes \/ filter_results

\* the timing of the filter.  The event loop is never blocked: time passes
\* while the timer is active, and a timer that has run out fires
DebounceSpec ==
    Init /\ [][NextDebounce]_vars /\ WF_vars(time_passes) /\ WF_vars(filter_results)

c_MEL == <<"c", ".", "MEL">>
n_txt == <<"n", ".", "txt">>

\* the default script folder holds a.py, b.mel, c.MEL and n.txt
InitScripts ==
    InitWith({join(default_script_folder, a_py), join(default_script_folder, b_mel),
              join(default_script_folder, c_MEL), join(default_script_folder, n_txt)})

InitEditor == InitFilter /\ InitScripts

\* stu.backup_script inside action_save_tab, no I/O failure happening
save_backup_made ==
    /\ save_backup_script
    /\ handler_log' = handler_log

\* the user of TabsSpec opens both scripts and saves to a.py of the default
\* folder only
TabsScope == save_path \in {NoPath, join(default_script_folder, a_py)}

\* the File menu: open, save, save as, close and reopen
NextTabs ==
    \/ file_menu_open_script
    \/ action_save_tab /\ TabsScope'
    \/ save_backup_made
    \/ save_selected_tab
    \/ action_close_tab
    \/ action_reopen_recently_closed

TabsSpec == Init /\ [][NextTabs]_vars

\* the characters of the texts selected in the model
SelChars == {Hash, Space, Newline, "a"}
SelectedTexts == UNION {[1..n -> SelChars] : n \in 0..MaxSel}

\* the user selects a text in the selected tab
select_text ==
    /\ pc = "idle"
    /\ \E text \in SelectedTexts :
          /\ selected_text' = text
          /\ original_text' = text
    /\ toggles' = 0
    /\ UNCHANGED <<filter_vars, panel_vars, files, dirs, now, tabs, selected,
                   folder_path, root_path, settings, pc, save_path, handler_log,
                   raised, snapshots, backups_made>>

\* toggle_comment_selected_lines (Ctrl+/): new_text is inserted over the
\* selection; the user selects the inserted text again
toggle_comment_selected_lines ==
    /\ pc = "idle"
    /\ toggles < MaxToggles
    /\ selected_text' = new_text(selected_text)
    /\ toggles' = toggles + 1
    /\ UNCHANGED <<filter_vars, panel_vars, files, dirs, now, tabs, selected,
                   folder_path, root_path, settings, pc, save_path, handler_log,
                   raised, snapshots, backups_made, original_text>>

\* the Edit menu: Toggle Comment
NextToggle == select_text \/ toggle_comment_selected_lines

ToggleSpec == Init /\ [][NextToggle]_vars

ClickSpec == InitEditor /\ [][NextClick]_vars
EditorSpec == InitEditor /\ [][NextEditor]_vars

\* ------------------------------------------------- search filter: claims

\* what the claims speak of, stated without the operators of filter_results
AsciiOnly(s) == SelectSeq(s, IsAscii)
Without(s, drop) == SelectSeq(s, LAMBDA c : c \notin drop)
Whitespace == {Space, Tab}

CommaPos(s) == {i \in 1..Len(s) : s[i] = Comma}

\* position of the n-th comma of s; 0 before the first term, Len(s) + 1 after the last
Cut(s, n) ==
    IF n = 0 THEN 0
    ELSE IF n > Cardinality(CommaPos(s)) THEN Len(s) + 1
    ELSE CHOOSE i \in CommaPos(s) : Cardinality({j \in CommaPos(s) : j <= i}) = n

\* the comma-separated terms of s
TermsOf(s) ==
    [n \in 1..(Cardinality(CommaPos(s)) + 1) |-> SubSeq(s, Cut(s, n - 1) + 1, Cut(s, n) - 1)]

\* the patterns *t*.py and *t*.mel of the terms, each term t taken without the
\* characters of drop
TermPatterns(terms, drop) ==
    UNION { { <<"*">> \o Without(terms[i], drop) \o <<"*", ".py">>,
              <<"*">> \o Without(terms[i], drop) \o <<"*", ".mel">> } :
            i \in 1..Len(terms) }

\* filter_results was the last thing to happen to the search box: the timer
\* is not pending, so nameFilters and expanded are those of search_text
Filtered == ~timer_pending

TermsNonEmptyWithout(drop) ==
    LET q == AsciiOnly(search_text)
    IN  q /= <<>> /\ \A i \in 1..Len(TermsOf(q)) : Without(TermsOf(q)[i], drop) /= <<>>

TwoPatternsPerTerm(drop) ==
    LET terms == TermsOf(AsciiOnly(search_text))
    IN  /\ Range(nameFilters) = TermPatterns(terms, drop)
        /\ Len(nameFilters) = 2 * Len(terms)
        /\ expanded

C2_ExpandIffQuery ==
    Filtered =>
        /\ expanded <=> (AsciiOnly(search_text) /= <<>>)
        /\ AsciiOnly(search_text) = <<>> =>
              /\ nameFilters = << <<"*", ".py">>, <<"*", ".mel">> >>
              /\ ~expanded

\* a query that is empty only after the stripping was filtered
C2_Witness ==
    /\ Filtered
    /\ search_text = <<NonAsciiChar>>
    /\ nameFilters = << <<"*", ".py">>, <<"*", ".mel">> >>
    /\ ~expanded

OnlyCommasAndWhitespace(s) == s /= <<>> /\ \A i \in 1..Len(s) : s[i] \in Whitespace \cup {Comma}

\* C3: a query made only of commas and whitespace has its empty terms
\* discarded: the pattern set is empty, with the tree expanded.
C3_EmptyTermsDiscarded ==
    (Filtered /\ OnlyCommasAndWhitespace(AsciiOnly(search_text)))
        => (nameFilters = <<>> /\ expanded)

HasNonAscii(s) == \E i \in 1..Len(s) : ~IsAscii(s[i])

\* C4: for a query with non-ASCII characters, the filters and the expand state
\* are those produced for the query with its non-ASCII characters removed.
C4_StripFirst ==
    (Filtered /\ HasNonAscii(search_text)) =>
        /\ nameFilters = name_filters(AsciiOnly(search_text))
        /\ expanded = tree_expanded(AsciiOnly(search_text))

\* a query with non-ASCII characters around an ASCII one was filtered
C4_Witness ==
    /\ Filtered
    /\ search_text = <<NonAsciiChar, "a", NonAsciiChar>>
    /\ Range(nameFilters) = { <<"*", "a", "*", ".py">>, <<"*", "a", "*", ".mel">> }

\* ------------------------------------------------- backup_script: claims

FSNext == [files |-> files', dirs |-> dirs']

\* the step that runs backup_script inside action_save_tab
BackupScriptStep == pc = "backup_script" /\ pc' /= "backup_script"

\* the file names of the model end in a dot and an extension
StemOf(path) == SubSeq(basename(path), 1, Len(basename(path)) - 2)
ExtensionOf(path) == SubSeq(basename(path), Len(basename(path)) - 1, Len(basename(path)))

\* <backupRoot>/<stem>/<stem>_BACKUP_<unixTimestampSeconds><extension>
ExpectedBackup(path, time) ==
    script_backup_folder
        \o << StemOf(path), StemOf(path) \o <<"_BACKUP_">> \o str(time) \o ExtensionOf(path) >>

\* C5 as stated: backup_script(path) on an existing file (no I/O failure
\* happening) creates exactly one new file, at ExpectedBackup, in a directory
\* that exists afterwards, and leaves the original unchanged, whatever backups
\* already exist.
C5_AsStated ==
    [][ (BackupScriptStep /\ save_path \in DOMAIN files /\ handler_log' = handler_log) =>
            /\ DOMAIN files' \ DOMAIN files = {ExpectedBackup(save_path, now)}
            /\ dirname(ExpectedBackup(save_path, now)) \in dirs'
            /\ save_path \in DOMAIN files' /\ files'[save_path] = files[save_path]
      ]_vars

\* C5, amended: backup_script(path) on an existing file, when neither the
\* directory creation nor the copy fails, leaves a copy of the file at
\* ExpectedBackup in a directory that exists afterwards, and leaves the
\* original and every other file unchanged; the copy is the one new file,
\* unless a backup of the same stem, extension and second already exists:
\* that backup is overwritten and no file is new.
C5_BackupWritten ==
    [][ (BackupScriptStep /\ save_path \in DOMAIN files /\ handler_log' = handler_log) =>
            LET dst == ExpectedBackup(save_path, now)
            IN  /\ dst \in DOMAIN files' /\ files'[dst] = files[save_path]
                /\ DOMAIN files' \ DOMAIN files = {dst} \ DOMAIN files
                /\ \A p \in DOMAIN files \ {dst} : p \in DOMAIN files' /\ files'[p] = files[p]
                /\ dirname(dst) \in dirs'
                /\ save_path \in DOMAIN files' /\ files'[save_path] = files[save_path]
      ]_vars

\* backup_script has copied the file about to be saved, the copy differing
\* from the text that is about to replace the file
C5_Witness ==
    /\ pc = "save_selected_tab"
    /\ handler_log = <<>>
    /\ save_path \in DOMAIN files
    /\ ExpectedBackup(save_path, now) \in DOMAIN files
    /\ files[ExpectedBackup(save_path, now)] = files[save_path]
    /\ files[save_path] /= tabs[selected].text

\* C6: backup_script(path) for a path that does not exist is a no-op: no file
\* and no directory is created, nothing is logged, no exception leaves it, and
\* action_save_tab goes on to save_selected_tab.
C6_NoSourceNoOp ==
    [][ (BackupScriptStep /\ save_path \notin DOMAIN files /\ save_path \notin dirs) =>
            /\ files' = files
            /\ dirs' = dirs
            /\ handler_log' = handler_log
            /\ ~raised'
            /\ pc' = "save_selected_tab"
      ]_vars

\* backup_script has returned for a path that does not exist
C6_Witness ==
    /\ pc = "save_selected_tab"
    /\ save_path \notin DOMAIN files
    /\ save_path \notin dirs
    /\ handler_log = <<>>
    /\ script_backup_folder \notin dirs

\* the backup of save_path is in place after the step
BackupMadeNext ==
    /\ ExpectedBackup(save_path, now) \in DOMAIN files'
    /\ files'[ExpectedBackup(save_path, now)] = files[save_path]

\* C7: a failure while making the per-file backup is caught and logged and
\* does not reach action_save_tab: save_selected_tab is called, and it saves
\* the tab to the chosen path.
C7_BackupFailureSwallowed ==
    [][ /\ (BackupScriptStep /\ save_path \in DOMAIN files /\ ~BackupMadeNext) =>
              /\ ~raised'
              /\ pc' = "save_selected_tab"
              /\ Len(handler_log') = Len(handler_log) + 1
              /\ handler_log'[Len(handler_log')].level = "error"
        /\ (pc = "save_selected_tab" /\ pc' /= "save_selected_tab") =>
              /\ pc' = "idle"
              /\ save_path \in DOMAIN files' /\ files'[save_path] = tabs[selected].text
              /\ tabs'[selected].path = save_path
      ]_vars

\* the save went through although its backup failed
C7_Witness ==
    /\ pc = "idle"
    /\ ~raised
    /\ Len(handler_log) = 2
    /\ handler_log[1].level = "error"
    /\ handler_log[2] = [logger |-> "Script-Tree", level |-> "info"]
    /\ tabs[selected].path \in DOMAIN files
    /\ files[tabs[selected].path] = tabs[selected].text

\* --------------------------------------------------- backup_tree: claims

\* the step that runs backup_tree inside action_backup_tree
BackupTreeStep == snapshots' /= snapshots

LastSnapshot == snapshots[Len(snapshots)]

\* <treeBackupRoot>/ScriptTree_BACKUP_<timestamp>
ExpectedSnapshotDir(time) ==
    tree_backup_folder \o << <<"ScriptTree_BACKUP_">> \o str(time) >>

\* C8: backup_tree(src), when no I/O failure happens, produces the directory
\* ExpectedSnapshotDir whose set of relative file paths is that of src, and
\* leaves src untouched, for every source folder.
C8_SnapshotMatchesSource ==
    [][ (BackupTreeStep /\ snapshots'[Len(snapshots')].io_ok) =>
            LET dst == ExpectedSnapshotDir(now)
            IN  /\ snapshots'[Len(snapshots')].dst = dst
                /\ dst \in dirs'
                /\ RelFiles(FSNext, dst) = RelFiles(FS, folder_path)
                /\ FilesUnder(FSNext, folder_path) = FilesUnder(FS, folder_path)
                /\ DirsUnder(FSNext, folder_path) = DirsUnder(FS, folder_path)
                /\ \A f \in FilesUnder(FS, folder_path) : files'[f] = files[f]
      ]_vars

\* C9 as stated: over any sequence of backup_tree calls, no two snapshots use
\* the same destination directory.
C9_AsStated ==
    \A i, j \in 1..Len(snapshots) : i < j => snapshots[i].dst /= snapshots[j].dst

\* C9, amended: two backup_tree calls made in different seconds use different
\* destination directories, neither inside the other, and the later one
\* writes nothing inside the destination of the earlier one.
C9_DistinctSeconds ==
    \A i, j \in 1..Len(snapshots) :
        (i < j /\ snapshots[i].time /= snapshots[j].time) =>
            /\ snapshots[i].dst /= snapshots[j].dst
            /\ ~IsPrefix(snapshots[i].dst, snapshots[j].dst)
            /\ ~IsPrefix(snapshots[j].dst, snapshots[i].dst)
            /\ \A p \in snapshots[j].written : ~IsPrefix(snapshots[i].dst, p)

\* two snapshots were taken in different seconds, both copying files
C9_Witness ==
    /\ Len(snapshots) = 2
    /\ snapshots[1].time /= snapshots[2].time
    /\ \A i \in 1..2 : \E p \in snapshots[i].written : p \in DOMAIN files
    /\ ~snapshots[1].raised /\ ~snapshots[2].raised

\* C10: a failure during backup_tree is not swallowed: the exception leaves
\* action_backup_tree, nothing is logged in its place, the copy was attempted
\* once, and what was copied before the failure stays in the destination.
C10_TreeFailurePropagates ==
    [][ (BackupTreeStep /\ ~snapshots'[Len(snapshots')].io_ok) =>
            /\ raised'
            /\ handler_log' = <<>>
            /\ Len(snapshots') = Len(snapshots) + 1
            /\ \A p \in DOMAIN files : p \in DOMAIN files'
            /\ dirs \subseteq dirs'
            /\ \A p \in snapshots'[Len(snapshots')].written : path_exists(FSNext, p)
      ]_vars

\* a snapshot failed part-way and left the handler as an exception, a copied
\* file staying in the incomplete destination
C10_Witness ==
    /\ snapshots /= <<>>
    /\ raised
    /\ ~LastSnapshot.io_ok
    /\ LastSnapshot.raised
    /\ \E p \in LastSnapshot.written : p \in DOMAIN files /\ IsPrefix(LastSnapshot.dst, p)
    /\ RelFiles(FS, LastSnapshot.dst) /= RelFiles(FS, LastSnapshot.src)

\* ------------------------------------------- double click, settings: claims

HostFns == {host_calls[i].fn : i \in 1..Len(host_calls)}
LogLevels == {handler_log[i].level : i \in 1..Len(handler_log)}

DoubleClicked == last_event.signal = "doubleClicked"
RunMode == settings.double_click_action = {run_script_on_click}
EditMode == settings.double_click_action = {edit_script_on_click}

\* the latest double click ran the current item and did not open it
RanNotOpened ==
    /\ last_event.slots = <<"action_run_script">>
    /\ "open_script" \notin HostFns
    /\ current_path \in DOMAIN files => "add_to_repeat_commands" \in HostFns

\* the latest double click opened the current item and did not run it
OpenedNotRan ==
    /\ last_event.slots = <<"action_open_script">>
    /\ HostFns \subseteq {"open_script"}
    /\ current_path \in DOMAIN files =>
          /\ "open_script" \in HostFns
          /\ tabs[selected] = [path |-> current_path, text |-> files[current_path]]

\* C11: after any sequence of preference selections and double clicks, exactly
\* one handler is connected to the double click, and a double click dispatches
\* by the preference persisted at that moment: with RunMode it calls
\* action_run_script and never action_open_script, with EditMode the reverse.
C11_DispatchFollowsPreference ==
    /\ Len(doubleClicked) = 1
    /\ RunMode => doubleClicked = <<"action_run_script">>
    /\ EditMode => doubleClicked = <<"action_open_script">>
    /\ (DoubleClicked /\ RunMode) => RanNotOpened
    /\ (DoubleClicked /\ EditMode) => OpenedNotRan

\* a.py was opened for editing, the preference was switched to RunMode, and
\* the latest double click ran b.mel without opening it
C11_Witness ==
    /\ DoubleClicked
    /\ RunMode
    /\ current_path = join(default_script_folder, b_mel)
    /\ host_calls = <<[fn |-> "add_to_repeat_commands", arg |-> NoPath]>>
    /\ \E i \in 1..Len(tabs) : tabs[i].path = join(default_script_folder, a_py)
    /\ \A i \in 1..Len(tabs) : tabs[i].path /= join(default_script_folder, b_mel)

\* C12: while no double-click preference has ever been stored, the preference
\* is EditOnDoubleClick: the double click is connected to action_open_script, a
\* double click on a script opens it for editing and does not run it.
C12_DefaultIsEdit ==
    settings.double_click_action = Unset =>
        /\ doubleClicked = <<"action_open_script">>
        /\ DoubleClicked => OpenedNotRan

\* a.py was double-clicked with nothing stored and is open in the selected tab
C12_Witness ==
    /\ settings.double_click_action = Unset
    /\ DoubleClicked
    /\ current_path = join(default_script_folder, a_py)
    /\ tabs[selected].path = current_path
    /\ host_calls = <<[fn |-> "open_script", arg |-> current_path]>>

\* the values handed to value() as defaultValue, none of them a stored one
ChoiceDefaults == {edit_script_on_click, run_script_on_click, "another"}
FolderDefaults == {default_script_folder, tree_backup_folder}

\* C14: after setValue(key, v), value(key, default) is v whatever the default,
\* for the folder path set by action_set_folder and the double-click action
\* set by the menu; value() on a key never set is the caller's default.
C14_SettingsRoundTrip ==
    /\ \A d \in ChoiceDefaults :
          /\ settings.double_click_action = Unset =>
                value(settings, k_double_click_action, d) = d
          /\ last_event.signal = "triggered" =>
                value(settings, k_double_click_action, d) = last_event.choice
    /\ \A d \in FolderDefaults :
          /\ value(NoSettings, k_folder_path, d) = d
          /\ value(settings, k_folder_path, d) = folder_path
    /\ ~raised

\* both keys were set, to values that are not the defaults the panel reads
\* them with
C14_Witness ==
    /\ last_event.signal = "triggered"
    /\ last_event.choice = run_script_on_click
    /\ value(settings, k_double_click_action, edit_script_on_click) = run_script_on_click
    /\ folder_path = script_tree_folder
    /\ value(settings, k_folder_path, default_script_folder) = script_tree_folder

\* action_run_script ran last, on a file that is not a .py file
RanNonPython ==
    /\ "action_run_script" \in Range(last_event.slots)
    /\ current_path \in DOMAIN files
    /\ ~endswith(current_path, dot_py)

\* C15: running a script that is not a Python file logs a warning and is
\* otherwise a no-op: nothing is executed, nothing is sent to the host, no
\* error is raised.
C15_NonPythonRunIsNoOp ==
    RanNonPython =>
        /\ "warning" \in LogLevels
        /\ host_calls = <<>>
        /\ ~raised

\* ------------------------------------------------- script editor: claims

Reopened == last_event'.signal = "Reopen closed Script"
MostRecent == recently_closed_scripts[Len(recently_closed_scripts)]
Popped ==
    recently_closed_scripts' =
        SubSeq(recently_closed_scripts, 1, Len(recently_closed_scripts) - 1)
EditorUnchanged == tabs' = tabs /\ selected' = selected
ReopenedEmpty ==
    (Reopened /\ recently_closed_scripts = <<>>) =>
        /\ recently_closed_scripts' = <<>>
        /\ EditorUnchanged
        /\ host_calls' = <<>>
        /\ ~raised'

\* C13 as stated: the list is a last-in-first-out stack of file paths: a
\* reopen on a non-empty list removes the most recently closed path and opens
\* it; a reopen on an empty list is a no-op.
C13_AsStated ==
    [][ /\ ReopenedEmpty
        /\ (Reopened /\ recently_closed_scripts /= <<>>) =>
              /\ Popped
              /\ MostRecent /= NoPath
              /\ tabs'[selected'].path = MostRecent
      ]_vars

\* C13, amended: the list is a last-in-first-out stack of the paths of the
\* closed tabs, the empty path of a tab never saved included: a reopen on a
\* non-empty list removes the last entry, opens it when it is a path and
\* leaves the editor alone when it is the empty path; a reopen on an empty
\* list is a no-op.
C13_ReopenIsLifo ==
    [][ /\ ReopenedEmpty
        /\ (Reopened /\ recently_closed_scripts /= <<>>) =>
              /\ Popped
              /\ MostRecent /= NoPath =>
                    /\ tabs'[selected'].path = MostRecent
                    /\ tabs'[selected'].text = files[MostRecent]
              /\ MostRecent = NoPath => (EditorUnchanged /\ host_calls' = <<>>)
        /\ last_event'.signal = "Close Script" =>
              /\ recently_closed_scripts' =
                    Append(recently_closed_scripts, tabs[selected].path)
              /\ Len(tabs') = Len(tabs) - 1
      ]_vars

\* two scripts were closed, b.mel last, and the reopen brought b.mel back and
\* left a.py on the list
C13_Witness ==
    /\ last_event.signal = "Reopen closed Script"
    /\ recently_closed_scripts = <<join(default_script_folder, a_py)>>
    /\ host_calls = <<[fn |-> "open_script", arg |-> join(default_script_folder, b_mel)]>>
    /\ tabs[selected].path = join(default_script_folder, b_mel)

\* C20: open_script(path) for a path with no open tab creates exactly one new
\* tab and loads the file into it, the tabs open before keeping their path and
\* content, for every file extension.
C20_OpenCreatesOneTab ==
    [][ (last_event'.signal = "Open Script" /\ host_calls' /= <<>>
            /\ tabs_named(Editor, host_calls'[1].arg) = {}) =>
            /\ Len(tabs') = Len(tabs) + 1
            /\ \A i \in 1..Len(tabs) : tabs'[i] = tabs[i]
            /\ tabs'[Len(tabs')] = [path |-> host_calls'[1].arg,
                                    text |-> files[host_calls'[1].arg]]
            /\ selected' = Len(tabs')
      ]_vars

\* ------------------------------------------------------- debounce: claims

TextChanged == search_text' /= search_text
FilterRan == filter_runs' /= filter_runs /\ filter_runs' /= 0

\* C16: every text change (re)starts the one single-shot timer with the full
\* delay and runs no filter itself; filter_results runs only when the timer
\* has run the full delay since the latest text change, once, with the text
\* the search box holds then, and not again before the next text change;
\* unless the text goes on changing for ever, the pending run happens.
C16_Debounce ==
    /\ [][ /\ TextChanged =>
                 /\ timer_pending' /\ timer_left' = user_input_filter_delay
                 /\ filter_runs' = 0
                 /\ nameFilters' = nameFilters /\ expanded' = expanded
           /\ FilterRan =>
                 /\ timer_pending /\ timer_left = 0 /\ filter_runs = 0
                 /\ ~TextChanged
                 /\ nameFilters' = name_filters(search_text)
                 /\ expanded' = tree_expanded(search_text)
                 /\ ~timer_pending'
           /\ (~TextChanged /\ ~FilterRan) =>
                 (nameFilters' = nameFilters /\ expanded' = expanded)
         ]_vars
    /\ ([]<><<TextChanged>>_vars) \/ (<>[](~timer_pending /\ filter_runs <= 1))

\* the filter ran once after a burst of three text changes, for the text of
\* the last one
C16_Witness ==
    /\ filter_runs = 1
    /\ ~timer_pending
    /\ Len(search_text) = 3
    /\ nameFilters = name_filters(search_text)
    /\ nameFilters /= default_filter

\* --------------------------------------------------------- logging: claims

\* C17: every record the program logs goes through the logger 'Script-Tree',
\* none through the root logger of the host.
C17_OneNamedLogger ==
    \A i \in 1..Len(handler_log) : handler_log[i].logger = "Script-Tree"

\* ------------------------------------------------------ save order: claims

SaveTabStep == pc = "save_selected_tab" /\ pc' /= "save_selected_tab"
CancelledStep == pc = "idle" /\ pc' = "idle" /\ now' = now

\* C18: in action_save_tab with a path, backup_script runs before
\* save_selected_tab and leaves the file as it is on disk, so the backup it
\* made holds the content from before this save, also after the save; with the
\* dialog cancelled neither runs: no file, directory or tab changes.
C18_BackupBeforeSave ==
    [][ /\ pc' = "save_selected_tab" => BackupScriptStep
        /\ pc' = "backup_script" => (pc = "idle" /\ save_path' /= NoPath)
        /\ (BackupScriptStep /\ save_path \in DOMAIN files) =>
              (files'[save_path] = files[save_path] /\ tabs' = tabs)
        /\ (SaveTabStep /\ <<ExpectedBackup(save_path, now), save_path, now>> \in backups_made
                /\ handler_log = <<>>) =>
              /\ files[ExpectedBackup(save_path, now)] = files[save_path]
              /\ files'[ExpectedBackup(save_path, now)] = files[save_path]
              /\ files'[save_path] = tabs[selected].text
        /\ CancelledStep =>
              /\ files' = files /\ dirs' = dirs
              /\ tabs' = tabs /\ selected' = selected
              /\ backups_made' = backups_made
      ]_vars

\* a.py, "v0" on disk, was saved from a tab holding "v1": the file holds "v1"
\* and the backup of this save "v0"
C18_Witness ==
    /\ pc = "idle"
    /\ handler_log = <<ScriptTreeInfo>>
    /\ tabs[selected] = [path |-> join(default_script_folder, a_py), text |-> "v1"]
    /\ files[tabs[selected].path] = "v1"
    /\ ExpectedBackup(tabs[selected].path, now) \in DOMAIN files
    /\ files[ExpectedBackup(tabs[selected].path, now)] = "v0"

\* C19 as stated: backups of two distinct scripts are never written to the
\* same destination path, whatever their names, folders and timestamps.
C19_AsStated ==
    \A x, y \in backups_made : x[1] = y[1] => x[2] = y[2]

\* C19, amended: backups of two scripts with different file names are never
\* written to the same destination path; the copies of two scripts with the
\* same file name in different folders go to the same backup folder, and to
\* the same destination path only when made in the same second.
C19_DistinctNamesApart ==
    \A x, y \in backups_made :
        /\ x[1] = y[1] => (basename(x[2]) = basename(y[2]) /\ x[3] = y[3])
        /\ basename(x[2]) = basename(y[2]) => dirname(x[1]) = dirname(y[1])

\* backups were made of a.py, of sub/a.py and of b.mel
C19_Witness ==
    /\ \E x, y \in backups_made :
          /\ basename(x[2]) = a_py /\ basename(y[2]) = b_mel
          /\ x[1] \in DOMAIN files /\ y[1] \in DOMAIN files
    /\ \E x, y \in backups_made :
          /\ x[2] /= y[2] /\ basename(x[2]) = basename(y[2])

\* C21: after any sequence of open, save, save as, close and reopen, no two
\* tabs of the script editor carry the same script path.
C21_NoTwoTabsOnePath ==
    \A i, j \in 1..Len(tabs) :
        (i < j /\ tabs[i].path /= NoPath) => tabs[i].path /= tabs[j].path

\* -------------------------------------------------------------------- C22

\* the action named by a choice of the double-click preference
action_named(choice) ==
    IF choice = edit_script_on_click THEN "action_open_script"
                                     ELSE "action_run_script"

\* C22: in every reachable state, the one with no stored preference included,
\* the radio choice checked in the context menu names the action that a double
\* click is wired to.
C22_CheckedChoiceIsWired ==
    doubleClicked = <<action_named(item_to_check(settings))>>

\* -------------------------------------------------------------------- C23

\* the persisted folder, the folder shown in the panel and the root of the
\* browser are one folder, and it exists
FolderAgrees ==
    /\ value(settings, k_folder_path, default_script_folder) = folder_path
    /\ settings[k_folder_path] = {folder_path}
    /\ root_path = folder_path
    /\ root_path \in dirs

SetFolderHandled == last_event.signal = "set_folder_btn.clicked"

\* C23: after construction and after any sequence of action_set_folder calls
\* the persisted folder_path equals the folder shown and the root of the
\* browser; a call that leaves the folder as it was (the dialog cancelled, or
\* the same folder picked) changes neither and creates no directory, and the
\* root of every state is a directory that exists, created by the call that
\* made it the root if it did not exist before.
C23_FolderPersistedShownAndRoot ==
    /\ FolderAgrees
    /\ [][/\ FolderAgrees'
          /\ (action_set_folder /\ folder_path' = folder_path) =>
                 /\ settings' = settings
                 /\ root_path' = root_path
                 /\ dirs' = dirs
          /\ (action_set_folder /\ folder_path' /= folder_path) =>
                 dirs' = dirs \cup Ancestors(root_path')]_vars

\* the folder New, which did not exist, was picked: it is the root, shown,
\* persisted and created
C23_Witness ==
    /\ SetFolderHandled
    /\ root_path = new_folder
    /\ folder_path = new_folder
    /\ settings[k_folder_path] = {new_folder}
    /\ new_folder \in dirs

\* -------------------------------------------------------------------- C24

\* the first line of the selection as it was made contains no "#"
Uncommented == comment_lines(original_text)

\* C24: for a selection whose first line contains no "#", commenting it and
\* toggling the result again yields the original text, also when later lines
\* of the selection contain "#" or "# ".
C24_ToggleTwiceIsIdentity ==
    (toggles = 2 /\ Uncommented) => selected_text = original_text

====
